---- MODULE Spec2Model ----
(***************************************************************************)
(* A model of the ml_catalysis_tutorials repository: the notebook that     *)
(* writes LMDB datasets from ASE trajectories, the adsorption-energy       *)
(* notebook, the slab set-up of the relaxation notebooks and the deploy    *)
(* workflow.  Each part has its own specification over the same variables. *)
(***************************************************************************)
EXTENDS Integers, Sequences, FiniteSets, TLC

VARIABLES
    \* ---- lmdb_dataset_creation.ipynb (kernel state and the files on disk)
    files,          \* path -> trajectory (sequence of frames) on disk
    system_paths,   \* the list the IS2RE cell iterates over
    raw_data,       \* frames read from the toy trajectory, or <<>> before
    pc,             \* the cell (or loop position) the kernel is at
    idx,            \* IS2RE record counter
    sysi,           \* 1-based position in system_paths / data_objects
    db1,            \* sample_CuCO.lmdb: key bytes -> pickled value
    db2,            \* s2ef/sample_CuCO.lmdb
    db1open,        \* whether the IS2RE environment is open
    db2open,        \* whether the S2EF environment is open
    put1,           \* history: every txn.put of the IS2RE loop, in order,
                    \* with the loop position (src) it was made at
    put2,           \* history: every txn.put of the S2EF loop, in order
    data_objects,   \* S2EF: the converted frames, mutated in place
    dataset_len,    \* len(dataset) as last displayed, -1 before
    shown,          \* dataset[0] as last displayed, <<>> before
    \* ---- relaxations notebook, adsorption-energy cell
    epc,            \* position in the adsorption-energy cell
    nb,             \* the names the cell has bound so far (name -> value)
    \* ---- a structure set-up and relaxation cell
    rcell,          \* the cell that is run (its parameters)
    rpc,            \* position in the cell
    rtags,          \* the tags of the Atoms object, by atom (1-based here)
    rcons,          \* the indices (0-based) held by the FixAtoms constraint
    nsteps,         \* optimizer steps taken
    nframes,        \* frames written to the trajectory
    conv,           \* whether the force criterion is met at the current geometry
    \* ---- the deploy workflow
    dpc,            \* "idle" or "running"
    events,         \* the repository events so far, in order
    nruns,          \* runs of the job started so far
    run_event,      \* the event that started the latest run
    dstep,          \* the step the job is at (1-based)
    dcmd,           \* the command of a run step the shell is at (1-based)
    status,         \* the job status so far: "success" or "failure"
    steplog,        \* the latest run's steps so far: [step, outcome]
    cmdlog,         \* the latest run's shell commands so far: [cmd, ok]
    upstream,       \* upstream repository -> the revision its main branch is at
    runs,           \* every run so far: the commit it checked out and the
                    \* upstream revision each of its fetches obtained
    \* ---- the table of contents and the site built from it
    tpc,            \* "root", "parts" or "built"
    tpart,          \* the part the TOC walk is at (1-based)
    tchap,          \* the chapter of that part the walk is at (1-based)
    sequence,       \* the documents in reading order, as far as walked
    page,           \* the reader's position in sequence, 0 before the site is opened
    trail,          \* the documents the reader has opened, in order
    \* ---- a notebook run and the files of its working directory
    anb,            \* the notebook that is run
    apc,            \* position in the notebook
    had,            \* the asset files in the working directory before the run
    disk,           \* the files in the working directory
    requests,       \* the downloads made so far: [url, ok]
    \* ---- the operations in progress while a notebook runs
    cnb,            \* the notebook that is run
    mainop,         \* the operation the kernel's thread is in, or "none"
    bgops,          \* the operations in progress outside the kernel's thread
    nops,           \* operations the kernel's thread has begun
    nloads          \* batch loads begun

lmdbVars == <<files, system_paths, raw_data, pc, idx, sysi, db1, db2, db1open,
              db2open, put1, put2, data_objects, dataset_len, shown>>

energyVars == <<epc, nb>>

relaxVars == <<rcell, rpc, rtags, rcons, nsteps, nframes, conv>>

deployVars == <<dpc, events, nruns, run_event, dstep, dcmd, status, steplog, cmdlog,
                upstream, runs>>

tocVars == <<tpc, tpart, tchap, sequence, page, trail>>

assetVars == <<anb, apc, had, disk, requests>>

concVars == <<cnb, mainop, bgops, nops, nloads>>

vars == <<lmdbVars, energyVars, relaxVars, deployVars, tocVars, assetVars, concVars>>

\* The variables each part leaves alone.
notLmdb == <<energyVars, relaxVars, deployVars, tocVars, assetVars, concVars>>
notEnergy == <<lmdbVars, relaxVars, deployVars, tocVars, assetVars, concVars>>
notRelax == <<lmdbVars, energyVars, deployVars, tocVars, assetVars, concVars>>
notDeploy == <<lmdbVars, energyVars, relaxVars, tocVars, assetVars, concVars>>
notToc == <<lmdbVars, energyVars, relaxVars, deployVars, assetVars, concVars>>
notAsset == <<lmdbVars, energyVars, relaxVars, deployVars, tocVars, concVars>>
notConc == <<lmdbVars, energyVars, relaxVars, deployVars, tocVars, assetVars>>

-----------------------------------------------------------------------------
(* Bounds of the model *)

MaxFrames == 2      \* frames in one trajectory file
MaxSystems == 2     \* entries of system_paths
MaxConfig == 2      \* atomic configurations 0..MaxConfig a frame can be in
MaxEnergy == 1      \* calculator energies range over -MaxEnergy..MaxEnergy
LongFrames == 11    \* frames of the one long trajectory (keys of two digits)

-----------------------------------------------------------------------------
(* The toy structure: fcc100("Cu", size=(2, 2, 3)) with CO on top *)

ToyNx == 2
ToyNy == 2
ToyNz == 3
ToyAdsAtoms == 2

\* ase.build.fcc100 orders the atoms layer by layer from the bottom and tags
\* each layer with its number counted from the top: the top layer is 1, the
\* bottom layer is nz (the layer the notebook fixes with atom.tag == 3).
Fcc100Tags(nx, ny, nz) ==
    [i \in 1..(nx * ny * nz) |-> nz - ((i - 1) \div (nx * ny))]

\* add_adsorbate appends the molecule's atoms, which carry the default tag 0.
AddAdsorbateTags(tags, nads) == tags \o [i \in 1..nads |-> 0]

ToyTags == AddAdsorbateTags(Fcc100Tags(ToyNx, ToyNy, ToyNz), ToyAdsAtoms)

\* FixAtoms(indices=[atom.index for atom in adslab if (atom.tag == 3)]),
\* 0-based atom indices.
ToyFixed == {i - 1 : i \in {j \in DOMAIN ToyTags : ToyTags[j] = 3}}

-----------------------------------------------------------------------------
(* Frames and their conversion to Data objects *)

Configs == 0..MaxConfig

ToyPath == "CuCO_adslab.traj"
Paths == {ToyPath, "other.traj"}

\* A trajectory file holds at least the initial frame.  Besides all short
\* trajectories there is one long relaxation that stays in configuration 1.
LongTrajectory == [i \in 1..LongFrames |-> 1]
Trajectories == UNION {[1..n -> Configs] : n \in 1..MaxFrames} \cup {LongTrajectory}

\* The calculator's energy of a configuration (model units).
EMT(c) == 0 - (10 + c)

\* Number of neighbour pairs AtomsToGraphs finds within its radius:
\* configuration 0 stands for a structure with no neighbours in range.
EdgeCount(c) == c

\* AtomsToGraphs.convert with r_energy, r_forces, r_fixed: the attributes
\* of the Data object built from one frame.
Convert(c) ==
    [pos |-> c, y |-> EMT(c), edge_index |-> EdgeCount(c),
     natoms |-> Len(ToyTags), fixed |-> ToyFixed]

ConvertAll(images) == [i \in DOMAIN images |-> Convert(images[i])]

\* Python attribute assignment and deletion on a Data object.
SetAttr(d, k, v) == [a \in DOMAIN d \cup {k} |-> IF a = k THEN v ELSE d[a]]
DelAttr(d, k) == [a \in DOMAIN d \ {k} |-> d[a]]

-----------------------------------------------------------------------------
(* Keys and values as stored in LMDB *)

DigitChars == <<"0", "1", "2", "3", "4", "5", "6", "7", "8", "9">>

RECURSIVE StrOfInt(_)
\* f"{n}".encode("ascii") for n >= 0: the decimal digits, most significant
\* first.
StrOfInt(n) ==
    IF n < 10 THEN <<DigitChars[n + 1]>>
    ELSE Append(StrOfInt(n \div 10), DigitChars[(n % 10) + 1])

LengthKey == <<"l", "e", "n", "g", "t", "h">>

\* The attribute order in which a Data object is serialised.
AttrOrder == <<"pos", "y", "edge_index", "natoms", "fixed", "tags",
               "y_init", "y_relaxed", "pos_relaxed", "sid", "fid">>

\* pickle.dumps: a Data object becomes the sequence of its (name, value)
\* pairs, an int becomes a one-item sequence.
PickleData(d) ==
    LET names == SelectSeq(AttrOrder, LAMBDA a : a \in DOMAIN d)
    IN  [type |-> "Data",
         items |-> [i \in DOMAIN names |-> <<names[i], d[names[i]]>>]]
PickleInt(n) == [type |-> "int", items |-> <<n>>]

\* What txn.get returns for a key that is not in the store.
None == [type |-> "None", items |-> <<>>]

\* pickle.loads of a pickled Data object / of a pickled int.
UnpickleData(b) ==
    [a \in {b.items[i][1] : i \in DOMAIN b.items} |->
        b.items[CHOOSE i \in DOMAIN b.items : b.items[i][1] = a][2]]
UnpickleInt(b) == b.items[1]

\* An LMDB environment: txn.put overwrites, txn.get, env.stat()["entries"].
EmptyDb == [k \in {} |-> None]
Put(db, k, v) == [x \in DOMAIN db \cup {k} |-> IF x = k THEN v ELSE db[x]]
Get(db, k) == IF k \in DOMAIN db THEN db[k] ELSE None
Entries(db) == Cardinality(DOMAIN db)

-----------------------------------------------------------------------------
(* The dataset readers of the ocpmodels package, as the notebook uses them *)

\* SinglePointLmdbDataset: the keys are str(0) .. str(entries - 1).
SinglePointLen(db) == Entries(db)
SinglePointGet(db, k) == Get(db, StrOfInt(k))

\* TrajectoryLmdbDataset over a directory with one LMDB file: the number of
\* samples is the value unpickled from the "length" key; item k is read
\* from the key str(k).
TrajectoryHasLength(db) == Get(db, LengthKey).type = "int"
TrajectoryLen(db) == UnpickleInt(Get(db, LengthKey))
TrajectoryGet(db, k) == Get(db, StrOfInt(k))

-----------------------------------------------------------------------------
(* lmdb_dataset_creation.ipynb *)

\* Whether the name traj_path used by print("no neighbors", traj_path) is
\* bound in the kernel's namespace when the write loops run.  It is only a
\* parameter of read_trajectory_extract_features, so the print raises
\* NameError and the continue after it is never reached.
TrajPathDefined == FALSE

\* Mutant: the call sits in a try statement whose handler goes on.
HandledAlways(call) == TRUE

\* Whether an exception raised by the named library call is caught by
\* notebook code.  No cell contains a try statement, so none is.
Handled(call) == FALSE

\* Mutant: both images taken from the first frame.
ReadTrajectoryFirstFrameTwice(traj_path) ==
    LET traj == files[traj_path]
        objs == ConvertAll(<<traj[1], traj[1]>>)
    IN  <<SetAttr(objs[1], "tags", ToyTags), SetAttr(objs[2], "tags", ToyTags)>>

\* read_trajectory_extract_features(a2g, traj_path)
ReadTrajectoryExtractFeatures(traj_path) ==
    LET traj == files[traj_path]
        tags == ToyTags
        images == <<traj[1], traj[Len(traj)]>>
        objs == ConvertAll(images)
    IN  <<SetAttr(objs[1], "tags", tags), SetAttr(objs[2], "tags", tags)>>

\* Mutant: every system gets the same identifier.
Is2reSidConstant(i) == 0

\* initial_struc.sid = idx
Is2reSid(i) == i

\* The body of the IS2RE loop up to the neighbour check: the record to write.
Is2reRecord(data, i) ==
    LET initial_struc == data[1]
        relaxed_struc == data[2]
        s1 == SetAttr(initial_struc, "y_init", initial_struc.y)
        s2 == DelAttr(s1, "y")
        s3 == SetAttr(s2, "y_relaxed", relaxed_struc.y)
        s4 == SetAttr(s3, "pos_relaxed", relaxed_struc.pos)
    IN  SetAttr(s4, "sid", Is2reSid(i))

\* raw_data = ase.io.read("CuCO_adslab.traj", ":")
ReadRawData ==
    /\ pc = "raw"
    /\ IF ToyPath \in DOMAIN files
       THEN raw_data' = files[ToyPath] /\ pc' = "open1"
       ELSE IF Handled("ase.io.read")
            THEN raw_data' = <<>> /\ pc' = "open1"
            ELSE raw_data' = raw_data /\ pc' = "error_raw"   \* FileNotFoundError
    /\ UNCHANGED <<files, system_paths, idx, sysi, db1, db2, db1open, db2open,
                   put1, put2, data_objects, dataset_len, shown, notLmdb>>

\* db = lmdb.open("sample_CuCO.lmdb", ...); system_paths = [...]; idx = 0
OpenIs2re ==
    /\ pc = "open1"
    /\ db1open' = TRUE
    /\ idx' = 0
    /\ sysi' = 1
    /\ pc' = "is2re"
    /\ UNCHANGED <<files, system_paths, raw_data, db1, db2, db2open, put1,
                   put2, data_objects, dataset_len, shown, notLmdb>>

\* One iteration of "for system in system_paths"
Is2reIter ==
    /\ pc = "is2re"
    /\ sysi <= Len(system_paths)
    /\ IF system_paths[sysi] \notin DOMAIN files
       THEN IF Handled("ase.io.read")
            THEN /\ sysi' = sysi + 1                \* handler goes on
                 /\ UNCHANGED <<pc, idx, db1, put1>>
            ELSE /\ pc' = "error_file1"             \* FileNotFoundError
                 /\ UNCHANGED <<sysi, idx, db1, put1>>
       ELSE
       LET rec == Is2reRecord(ReadTrajectoryExtractFeatures(system_paths[sysi]), idx)
       IN  IF rec.edge_index = 0
           THEN IF TrajPathDefined
                THEN /\ sysi' = sysi + 1            \* continue
                     /\ UNCHANGED <<pc, idx, db1, put1>>
                ELSE /\ pc' = "error1"              \* NameError
                     /\ UNCHANGED <<sysi, idx, db1, put1>>
           ELSE /\ db1' = Put(db1, StrOfInt(idx), PickleData(rec))
                /\ put1' = Append(put1, [key |-> StrOfInt(idx), src |-> sysi, rec |-> rec])
                /\ idx' = idx + 1
                /\ sysi' = sysi + 1
                /\ UNCHANGED pc
    /\ UNCHANGED <<files, system_paths, raw_data, db2, db1open, db2open, put2,
                   data_objects, dataset_len, shown, notLmdb>>

\* db.close() after the loop
CloseIs2re ==
    /\ pc = "is2re"
    /\ sysi > Len(system_paths)
    /\ db1open' = FALSE
    /\ pc' = "read1"
    /\ UNCHANGED <<files, system_paths, raw_data, idx, sysi, db1, db2, db2open,
                   put1, put2, data_objects, dataset_len, shown, notLmdb>>

\* dataset = SinglePointLmdbDataset({"src": "sample_CuCO.lmdb"}); len(dataset)
ReadSinglePoint ==
    /\ pc = "read1"
    /\ dataset_len' = SinglePointLen(db1)
    /\ pc' = "item1"
    /\ UNCHANGED <<files, system_paths, raw_data, idx, sysi, db1, db2, db1open,
                   db2open, put1, put2, data_objects, shown, notLmdb>>

\* dataset[0]
ShowSinglePoint ==
    /\ pc = "item1"
    /\ IF SinglePointGet(db1, 0).type = "Data"
       THEN shown' = UnpickleData(SinglePointGet(db1, 0)) /\ pc' = "open2"
       ELSE shown' = shown /\ pc' = "error_read1"   \* pickle.loads(None)
    /\ UNCHANGED <<files, system_paths, raw_data, idx, sysi, db1, db2, db1open,
                   db2open, put1, put2, data_objects, dataset_len, notLmdb>>

\* os.makedirs("s2ef", exist_ok=True); db = lmdb.open("s2ef/sample_CuCO.lmdb", ...)
OpenS2ef ==
    /\ pc = "open2"
    /\ db2open' = TRUE
    /\ pc' = "convert2"
    /\ UNCHANGED <<files, system_paths, raw_data, idx, sysi, db1, db2, db1open,
                   put1, put2, data_objects, dataset_len, shown, notLmdb>>

\* tags = raw_data[0].get_tags(); data_objects = a2g.convert_all(raw_data)
ConvertS2ef ==
    /\ pc = "convert2"
    /\ data_objects' = ConvertAll(raw_data)
    /\ sysi' = 1
    /\ pc' = "s2ef"
    /\ UNCHANGED <<files, system_paths, raw_data, idx, db1, db2, db1open,
                   db2open, put1, put2, dataset_len, shown, notLmdb>>

\* data.sid = torch.LongTensor([0])
S2efSid(fid) == <<0>>

\* Mutant: every frame gets the same frame index.
S2efFidConstant(fid) == <<0>>

\* data.fid = torch.LongTensor([fid])
S2efFid(fid) == <<fid>>

\* The assignments at the head of the S2EF loop body, for enumerate index fid.
S2efRecord(data, fid) ==
    SetAttr(SetAttr(SetAttr(data, "sid", S2efSid(fid)), "fid", S2efFid(fid)),
            "tags", ToyTags)

\* One iteration of "for fid, data in enumerate(data_objects)"; fid = sysi - 1
S2efIter ==
    /\ pc = "s2ef"
    /\ sysi <= Len(data_objects)
    /\ LET fid == sysi - 1
           rec == S2efRecord(data_objects[sysi], fid)
       IN  /\ data_objects' = [data_objects EXCEPT ![sysi] = rec]
           /\ IF rec.edge_index = 0
              THEN IF TrajPathDefined
                   THEN /\ sysi' = sysi + 1         \* continue
                        /\ UNCHANGED <<pc, db2, put2>>
                   ELSE /\ pc' = "error2"           \* NameError
                        /\ UNCHANGED <<sysi, db2, put2>>
              ELSE /\ db2' = Put(db2, StrOfInt(fid), PickleData(rec))
                   /\ put2' = Append(put2, [key |-> StrOfInt(fid), src |-> sysi, rec |-> rec])
                   /\ sysi' = sysi + 1
                   /\ UNCHANGED pc
    /\ UNCHANGED <<files, system_paths, raw_data, idx, db1, db1open, db2open,
                   put1, dataset_len, shown, notLmdb>>

\* Mutant: the last frame index is stored instead of the count.
S2efLengthLastFid(objs) == Len(objs) - 1

\* pickle.dumps(len(data_objects), protocol=-1)
S2efLengthValue(objs) == Len(objs)

\* After the loop: put "length", commit, db.sync(), db.close()
WriteLengthS2ef ==
    /\ pc = "s2ef"
    /\ sysi > Len(data_objects)
    /\ db2' = Put(db2, LengthKey, PickleInt(S2efLengthValue(data_objects)))
    /\ db2open' = FALSE
    /\ pc' = "read2"
    /\ UNCHANGED <<files, system_paths, raw_data, idx, sysi, db1, db1open,
                   put1, put2, data_objects, dataset_len, shown, notLmdb>>

\* dataset = TrajectoryLmdbDataset({"src": "s2ef/"}); len(dataset)
ReadTrajectory ==
    /\ pc = "read2"
    /\ IF TrajectoryHasLength(db2)
       THEN dataset_len' = TrajectoryLen(db2) /\ pc' = "item2"
       ELSE dataset_len' = dataset_len /\ pc' = "error_read2"
    /\ UNCHANGED <<files, system_paths, raw_data, idx, sysi, db1, db2, db1open,
                   db2open, put1, put2, data_objects, shown, notLmdb>>

\* dataset[0]
ShowTrajectory ==
    /\ pc = "item2"
    /\ IF TrajectoryGet(db2, 0).type = "Data"
       THEN shown' = UnpickleData(TrajectoryGet(db2, 0)) /\ pc' = "done"
       ELSE shown' = shown /\ pc' = "error_read2"   \* pickle.loads(None)
    /\ UNCHANGED <<files, system_paths, raw_data, idx, sysi, db1, db2, db1open,
                   db2open, put1, put2, data_objects, dataset_len, notLmdb>>

\* The adsorption-energy cell before it runs.
EnergyIdle == epc = "idle" /\ nb = <<>>

\* The dataset notebook before it runs, with no files on disk.
LmdbIdle ==
    /\ files = <<>> /\ system_paths = <<>> /\ raw_data = <<>> /\ pc = "idle"
    /\ idx = 0 /\ sysi = 1 /\ db1 = EmptyDb /\ db2 = EmptyDb
    /\ db1open = FALSE /\ db2open = FALSE /\ put1 = <<>> /\ put2 = <<>>
    /\ data_objects = <<>> /\ dataset_len = -1 /\ shown = <<>>

\* No set-up cell has been chosen.
RelaxIdle ==
    /\ rcell = <<>> /\ rpc = "idle" /\ rtags = <<>> /\ rcons = {}
    /\ nsteps = 0 /\ nframes = 0 /\ conv = FALSE

\* No repository event has happened.
DeployIdle ==
    /\ dpc = "idle" /\ events = <<>> /\ nruns = 0 /\ run_event = <<>> /\ dstep = 0
    /\ dcmd = 0 /\ status = "success" /\ steplog = <<>> /\ cmdlog = <<>>
    /\ upstream = [r \in {"mamba-org/provision-with-micromamba",
                          "Open-Catalyst-Project/ocp"} |-> 0]
    /\ runs = <<>>

\* No table of contents has been read, and no notebook is run for its
\* downloads.
TocIdle ==
    /\ tpc = "idle" /\ tpart = 0 /\ tchap = 0 /\ sequence = <<>> /\ page = 0
    /\ trail = <<>>
    /\ anb = "none" /\ apc = "idle" /\ had = {} /\ disk = {} /\ requests = <<>>
    /\ cnb = "none" /\ mainop = "none" /\ bgops = {} /\ nops = 0 /\ nloads = 0

InitLmdb ==
    /\ EnergyIdle
    /\ RelaxIdle
    /\ DeployIdle
    /\ TocIdle
    /\ files \in UNION {[S -> Trajectories] : S \in SUBSET Paths}
    /\ system_paths \in UNION {[1..n -> Paths] : n \in 1..MaxSystems}
    /\ raw_data = <<>>
    /\ pc = "raw"
    /\ idx = 0
    /\ sysi = 1
    /\ db1 = EmptyDb
    /\ db2 = EmptyDb
    /\ db1open = FALSE
    /\ db2open = FALSE
    /\ put1 = <<>>
    /\ put2 = <<>>
    /\ data_objects = <<>>
    /\ dataset_len = -1
    /\ shown = <<>>

NextLmdb ==
    \/ ReadRawData
    \/ OpenIs2re
    \/ Is2reIter
    \/ CloseIs2re
    \/ ReadSinglePoint
    \/ ShowSinglePoint
    \/ OpenS2ef
    \/ ConvertS2ef
    \/ S2efIter
    \/ WriteLengthS2ef
    \/ ReadTrajectory
    \/ ShowTrajectory

SpecLmdb == InitLmdb /\ [][NextLmdb]_vars

-----------------------------------------------------------------------------
(* relaxations notebook: adsorption energy referenced to gas-phase species *)

\* Energies are exact numbers counted in half units, so that the cell's
\* divisions by two are exact: a calculator result of e units is Whole(e),
\* and e / 2 is Half(e).  (Python computes in binary floating point; the
\* rounding of the individual operations is not modelled.)
Whole(e) == 2 * e
Half(e) == e

Energies == (0 - MaxEnergy)..MaxEnergy

\* The potential energies the cell obtains from its relaxations, in the
\* order it computes them.
EnergyNames == <<"adslab_energy", "slab_energy", "H2O_energy", "N2_energy",
                 "CO_energy", "H2_energy">>

\* Atoms("CH3O").get_chemical_symbols()
AdsorbateSymbols == <<"C", "H", "H", "H", "O">>

\* Mutant: the carbon reference without the H2 term.
GasReferenceNoH2(H2_energy, N2_energy, H2O_energy, CO_energy) ==
    [H |-> Half(H2_energy),
     N |-> Half(N2_energy),
     O |-> Whole(H2O_energy) - Whole(H2_energy),
     C |-> Whole(CO_energy) - Whole(H2O_energy)]

\* gas_reference_energies = {"H": ..., "N": ..., "O": ..., "C": ...}
GasReferenceEnergies(H2_energy, N2_energy, H2O_energy, CO_energy) ==
    [H |-> Half(H2_energy),
     N |-> Half(N2_energy),
     O |-> Whole(H2O_energy) - Whole(H2_energy),
     C |-> Whole(CO_energy) - (Whole(H2O_energy) - Whole(H2_energy))]

\* One relaxation and get_potential_energy(): the next energy name is bound
\* to whatever the calculator returns.
ComputeEnergy ==
    /\ epc = "energies"
    /\ LET n == Cardinality(DOMAIN nb) + 1
       IN  /\ \E e \in Energies : nb' = SetAttr(nb, EnergyNames[n], e)
           /\ epc' = IF n < Len(EnergyNames) THEN "energies" ELSE "dict"
    /\ UNCHANGED notEnergy

\* gas_reference_energies = {...}; adsorbate = ...; adsorbate_reference_energy = 0
BuildGasReference ==
    /\ epc = "dict"
    /\ nb' = SetAttr(SetAttr(SetAttr(SetAttr(nb,
                "gas_reference_energies",
                GasReferenceEnergies(nb.H2_energy, nb.N2_energy,
                                     nb.H2O_energy, nb.CO_energy)),
                "adsorbate", AdsorbateSymbols),
                "adsorbate_reference_energy", 0),
                "i", 1)
    /\ epc' = "loop"
    /\ UNCHANGED notEnergy

\* One iteration of "for ads in adsorbate"
AddReference ==
    /\ epc = "loop"
    /\ nb.i <= Len(nb.adsorbate)
    /\ nb' = [nb EXCEPT !.adsorbate_reference_energy =
                            @ + nb.gas_reference_energies[nb.adsorbate[nb.i]],
                        !.i = @ + 1]
    /\ UNCHANGED epc
    /\ UNCHANGED notEnergy

\* adsorption_energy = adslab_energy - slab_energy - adsorbate_reference_energy
AdsorptionEnergy ==
    /\ epc = "loop"
    /\ nb.i > Len(nb.adsorbate)
    /\ nb' = SetAttr(nb, "adsorption_energy",
                     Whole(nb.adslab_energy) - Whole(nb.slab_energy)
                       - nb.adsorbate_reference_energy)
    /\ epc' = "done"
    /\ UNCHANGED notEnergy

InitEnergy ==
    /\ TocIdle
    /\ LmdbIdle
    /\ RelaxIdle
    /\ DeployIdle
    /\ epc = "energies"
    /\ nb = <<>>

NextEnergy ==
    \/ ComputeEnergy
    \/ BuildGasReference
    \/ AddReference
    \/ AdsorptionEnergy

SpecEnergy == InitEnergy /\ [][NextEnergy]_vars

-----------------------------------------------------------------------------
(* Structure set-up and relaxation cells *)

SlabN == 3              \* fcc100("Cu", size=(3, 3, 3))
MethoxyAtoms == 5       \* molecule("CH3O")
SurfaceStart == 18      \* tags[18:27] = 1
SurfaceStop == 27
AdsorbateStart == 27    \* tags[27:] = 2
QuickSteps == 100       \* dyn.run(fmax=..., steps=100)
ToySteps == 1000        \* dyn.run(fmax=0, steps=1000)

\* The cells that build a structure and relax it.  fmax is in meV/A; retag
\* says whether the cell replaces the tags fcc100 assigned; fixtag is the tag
\* its FixAtoms comprehension selects; tagads whether it has a tags[27:] line;
\* traj whether the optimizer is given a trajectory file; mol the gas-phase
\* molecule the cell relaxes instead of a slab ("none" for the slab cells).
RelaxationsSlab ==
    [notebook |-> "relaxations", size |-> <<SlabN, SlabN, SlabN>>, ads |-> 0,
     tagads |-> FALSE, retag |-> TRUE, fixtag |-> 0, fmax |-> 30, steps |-> QuickSteps,
     traj |-> TRUE, mol |-> "none"]
RelaxationsAdslab ==
    [notebook |-> "relaxations", size |-> <<SlabN, SlabN, SlabN>>,
     ads |-> MethoxyAtoms, tagads |-> TRUE, retag |-> TRUE, fixtag |-> 0, fmax |-> 30,
     steps |-> QuickSteps, traj |-> TRUE, mol |-> "none"]
CalculatorDemoAdslab ==
    [notebook |-> "ase_calculator_demo", size |-> <<SlabN, SlabN, SlabN>>,
     ads |-> MethoxyAtoms, tagads |-> TRUE, retag |-> TRUE, fixtag |-> 0, fmax |-> 50,
     steps |-> QuickSteps, traj |-> TRUE, mol |-> "none"]
Oc22Adslab ==
    [notebook |-> "ase_calculator_demo_oc22", size |-> <<SlabN, SlabN, SlabN>>,
     ads |-> MethoxyAtoms, tagads |-> TRUE, retag |-> TRUE, fixtag |-> 0, fmax |-> 30,
     steps |-> QuickSteps, traj |-> TRUE, mol |-> "none"]
Oc22Slab ==
    [notebook |-> "ase_calculator_demo_oc22", size |-> <<SlabN, SlabN, SlabN>>,
     ads |-> 0, tagads |-> FALSE, retag |-> TRUE, fixtag |-> 0, fmax |-> 30, steps |-> QuickSteps,
     traj |-> FALSE, mol |-> "none"]
DatasetToy ==
    [notebook |-> "lmdb_dataset_creation", size |-> <<ToyNx, ToyNy, ToyNz>>,
     ads |-> ToyAdsAtoms, tagads |-> FALSE, retag |-> FALSE, fixtag |-> 3, fmax |-> 0,
     steps |-> ToySteps, traj |-> TRUE, mol |-> "none"]
\* data_preprocessing.ipynb repeats the toy dataset cell.
PreprocessingToy == [DatasetToy EXCEPT !.notebook = "data_preprocessing"]
\* The adsorption-energy cell relaxes the bare slab again, without a
\* trajectory file, and then four gas-phase molecules.
EnergySlab == [RelaxationsSlab EXCEPT !.traj = FALSE]
GasCells ==
    {[notebook |-> "relaxations", size |-> <<0, 0, 0>>, ads |-> 0,
      tagads |-> FALSE, retag |-> FALSE, fixtag |-> 0, fmax |-> 30,
      steps |-> QuickSteps, traj |-> FALSE, mol |-> m] :
        m \in {"H2O", "N2", "CO", "H2"}}

\* Number of atoms of molecule(m).
GasAtoms(m) == IF m = "H2O" THEN 3 ELSE 2

RelaxCells == {RelaxationsSlab, RelaxationsAdslab, CalculatorDemoAdslab,
               Oc22Adslab, Oc22Slab, DatasetToy, PreprocessingToy, EnergySlab}
                 \cup GasCells

\* The chapters of the part "Quick-start using pre-trained models".
RelaxationNotebooks ==
    {"relaxations", "ase_calculator_demo", "ase_calculator_demo_oc22"}

\* numpy: a[lo:hi] = v and a[lo:] = v on an array of n elements (0-based,
\* hi exclusive, both clipped to the array).
SliceAssign(a, lo, hi, v) ==
    [i \in DOMAIN a |-> IF lo <= i - 1 /\ i - 1 < hi THEN v ELSE a[i]]
SliceAssignFrom(a, lo, v) == SliceAssign(a, lo, Len(a), v)

\* tags = np.zeros(len(adslab)); tags[18:27] = 1; tags[27:] = 2
\* (the bare-slab cells have no tags[27:] line: tagads is FALSE)
NewTags(n, tagads) ==
    LET t1 == SliceAssign([i \in 1..n |-> 0], SurfaceStart, SurfaceStop, 1)
    IN  IF tagads THEN SliceAssignFrom(t1, AdsorbateStart, 2) ELSE t1

\* Mutant: the comprehension's indices taken one too high.
FixAtomsIndicesOneBased(tags, t) == {i \in DOMAIN tags : tags[i] = t}

\* [atom.index for atom in adslab if (atom.tag == t)]
FixAtomsIndices(tags, t) == {i - 1 : i \in {j \in DOMAIN tags : tags[j] = t}}

\* slab = fcc100("Cu", size=...)
BuildSlab ==
    /\ rpc = "start"
    /\ rcell.mol = "none"
    /\ rtags' = Fcc100Tags(rcell.size[1], rcell.size[2], rcell.size[3])
    /\ rpc' = "slab"
    /\ UNCHANGED <<rcell, rcons, nsteps, nframes, conv, notRelax>>

\* add_adsorbate(adslab, adsorbate, 3, offset=(1, 1))
AddAdsorbate ==
    /\ rpc = "slab"
    /\ rcell.ads > 0
    /\ rtags' = AddAdsorbateTags(rtags, rcell.ads)
    /\ rpc' = "built"
    /\ UNCHANGED <<rcell, rcons, nsteps, nframes, conv, notRelax>>

\* tags = np.zeros(len(adslab)); ...; adslab.set_tags(tags)
SetTags ==
    /\ rpc = "built" \/ (rpc = "slab" /\ rcell.ads = 0)
    /\ rcell.retag
    /\ rtags' = NewTags(Len(rtags), rcell.tagads)
    /\ rpc' = "tagged"
    /\ UNCHANGED <<rcell, rcons, nsteps, nframes, conv, notRelax>>

\* cons = FixAtoms(indices=[...]); adslab.set_constraint(cons)
SetConstraint ==
    /\ rpc = "tagged" \/ (rpc = "built" /\ ~rcell.retag)
    /\ rcons' = FixAtomsIndices(rtags, rcell.fixtag)
    /\ rpc' = "ready"
    /\ UNCHANGED <<rcell, rtags, nsteps, nframes, conv, notRelax>>

\* H2O_atoms = molecule("H2O"); set_pbc; set_cell; set_calculator: a molecule
\* carries the tag 0 on every atom and the cell sets no constraint.
BuildMolecule ==
    /\ rpc = "start"
    /\ rcell.mol # "none"
    /\ rtags' = [i \in 1..GasAtoms(rcell.mol) |-> 0]
    /\ rpc' = "molecule"
    /\ UNCHANGED <<rcell, rcons, nsteps, nframes, conv, notRelax>>

\* Whether the optimizer's converged() can hold: the largest force must be
\* strictly below fmax, which no force is when fmax = 0.
MayConverge(fmax) == IF fmax = 0 THEN {FALSE} ELSE BOOLEAN

\* dyn.run(fmax, steps): the forces of the initial structure are computed
\* and the first frame is written (when the optimizer has a trajectory).
StartRun ==
    /\ rpc \in {"ready", "molecule"}
    /\ nsteps' = 0
    /\ nframes' = IF rcell.traj THEN 1 ELSE 0
    /\ conv' \in MayConverge(rcell.fmax)
    /\ rpc' = "running"
    /\ UNCHANGED <<rcell, rtags, rcons, notRelax>>

\* One optimizer step: taken while not converged and nsteps < steps; the new
\* geometry is written to the trajectory.
OptimizerStep ==
    /\ rpc = "running"
    /\ ~conv
    /\ nsteps < rcell.steps
    /\ nsteps' = nsteps + 1
    /\ nframes' = IF rcell.traj THEN nframes + 1 ELSE nframes
    /\ conv' \in MayConverge(rcell.fmax)
    /\ UNCHANGED <<rcell, rpc, rtags, rcons, notRelax>>

\* Mutant: run returns only once the force criterion is met.
FinishRunOnConvergence ==
    /\ rpc = "running"
    /\ conv
    /\ rpc' = "done"
    /\ UNCHANGED <<rcell, rtags, rcons, nsteps, nframes, conv, notRelax>>

\* run returns: the force criterion is met or the step budget is used up
FinishRun ==
    /\ rpc = "running"
    /\ conv \/ nsteps >= rcell.steps
    /\ rpc' = "done"
    /\ UNCHANGED <<rcell, rtags, rcons, nsteps, nframes, conv, notRelax>>

InitRelax ==
    /\ TocIdle
    /\ LmdbIdle
    /\ EnergyIdle
    /\ DeployIdle
    /\ rcell \in RelaxCells
    /\ rpc = "start"
    /\ rtags = <<>>
    /\ rcons = {}
    /\ nsteps = 0
    /\ nframes = 0
    /\ conv = FALSE

NextRelax ==
    \/ BuildSlab
    \/ BuildMolecule
    \/ AddAdsorbate
    \/ SetTags
    \/ SetConstraint
    \/ StartRun
    \/ OptimizerStep
    \/ FinishRun

SpecRelax == InitRelax /\ [][NextRelax]_vars

\* The kernel executes a cell's lines one after the other and the optimizer's
\* loop keeps iterating: a step that can be taken is eventually taken.
SpecRelaxFair == SpecRelax /\ WF_vars(NextRelax)

-----------------------------------------------------------------------------
(* The deploy workflow *)

MaxEvents == 2      \* repository events in one behaviour
MaxRev == 1         \* pushes an upstream main branch receives in one behaviour

\* The commits of this repository a run can check out (github.sha).
Commits == {"c1", "c2"}

\* The repositories the job fetches from while it runs.
Micromamba == "mamba-org/provision-with-micromamba"
Ocp == "Open-Catalyst-Project/ocp"
UpstreamRepos == {Micromamba, Ocp}

\* What a step or a command fetches from upstream: the item it obtains, the
\* repository and the ref it names.  The action is named by the branch main,
\* the two dependency files by the branch main, and git clone without -b
\* takes the default branch.
Fetches(name) ==
    CASE name = "Install Conda environment with Micromamba" ->
            {[item |-> "action", repo |-> Micromamba, ref |-> "main"]}
      [] name = "wget env.common.yml" ->
            {[item |-> "env.common.yml", repo |-> Ocp, ref |-> "main"]}
      [] name = "wget env.cpu.yml" ->
            {[item |-> "env.cpu.yml", repo |-> Ocp, ref |-> "main"]}
      [] name = "git clone ocp" ->
            {[item |-> "ocp", repo |-> Ocp, ref |-> "HEAD"]}
      [] OTHER -> {}

\* A branch name (or HEAD) resolves to the revision the branch is at when
\* the fetch is made.
Resolve(f, up) == up[f.repo]

\* The fetches a run has made, extended by those of one step or command.
Got(got, name, up) ==
    [i \in DOMAIN got \cup {f.item : f \in Fetches(name)} |->
        IF \E f \in Fetches(name) : f.item = i
        THEN Resolve(CHOOSE f \in Fetches(name) : f.item = i, up)
        ELSE got[i]]

\* The events a repository can receive: a kind and the ref it concerns.
EventTypes == {"push", "pull_request", "workflow_dispatch", "schedule"}
Refs == {[kind |-> "branch", name |-> "main"],
         [kind |-> "branch", name |-> "dev"],
         [kind |-> "tag", name |-> "main"]}
Events == [type : EventTypes, ref : Refs]

\* Mutant: "on: push" without the branches filter.
TriggersOnAnyPush(e) == e.type = "push"

\* on: push: branches: [main].  A branches filter alone never matches a tag.
Triggers(e) ==
    /\ e.type = "push"
    /\ e.ref.kind = "branch"
    /\ e.ref.name \in {"main"}

\* jobs.build-and-deploy-book.steps, in file order.  A "uses" step runs an
\* action; a "run" step hands its lines to the shell.
DeploySteps ==
    << [name |-> "actions/checkout@v3", kind |-> "uses", cmds |-> <<>>],
       [name |-> "Install Conda environment with Micromamba", kind |-> "uses",
        cmds |-> <<>>],
       [name |-> "Install OCP cpu codebase", kind |-> "run",
        cmds |-> <<"wget env.common.yml", "wget env.cpu.yml",
                   "conda-merge > env.yml", "mamba env update">>],
       [name |-> "Install OCP codebase", kind |-> "run",
        cmds |-> <<"git clone ocp", "cd ocp && python setup.py develop">>],
       [name |-> "Build the book", kind |-> "run",
        cmds |-> <<"jupyter-book build">>],
       [name |-> "GitHub Pages action", kind |-> "uses", cmds |-> <<>>] >>

\* The commands whose result a command uses: conda-merge reads the two
\* downloaded files, and the subshell enters the cloned directory first.
Needs(cmd) ==
    CASE cmd = "conda-merge > env.yml" ->
            {"wget env.common.yml", "wget env.cpu.yml"}
      [] cmd = "cd ocp && python setup.py develop" -> {"git clone ocp"}
      [] OTHER -> {}

\* Mutant: steps run whatever the job status is (if: always()).
StepRunsAlways(st) == TRUE

\* No step has an "if:", so each runs under the default condition success().
StepRuns(st) == st = "success"

\* Mutant: a run step counts as successful whatever its commands returned
\* (continue-on-error: true).
RunStepContinueOnError(results) == "success"

\* shell: bash -l {0} runs the script without -e: every line is executed and
\* the step's exit status is that of the last command.
RunStepOutcome(results) ==
    IF results[Len(results)].ok THEN "success" ELSE "failure"

\* The commands of the current run that have failed so far.
FailedCmds == {cmdlog[i].cmd : i \in {j \in DOMAIN cmdlog : ~cmdlog[j].ok}}

\* An event that matches the trigger starts a run of the job.
TriggerRun ==
    /\ dpc = "idle"
    /\ Len(events) < MaxEvents
    /\ \E e \in Events :
        /\ Triggers(e)
        /\ run_event' = e
        /\ events' = Append(events, e)
    /\ \E c \in Commits : runs' = Append(runs, [commit |-> c, got |-> <<>>])
    /\ nruns' = nruns + 1
    /\ dpc' = "running"
    /\ dstep' = 1
    /\ dcmd' = 1
    /\ status' = "success"
    /\ steplog' = <<>>
    /\ cmdlog' = <<>>
    /\ UNCHANGED <<upstream, notDeploy>>

\* Any other event starts nothing.
IgnoreEvent ==
    /\ dpc = "idle"
    /\ Len(events) < MaxEvents
    /\ \E e \in Events :
        /\ ~Triggers(e)
        /\ events' = Append(events, e)
    /\ UNCHANGED <<dpc, nruns, run_event, dstep, dcmd, status, steplog, cmdlog,
                   upstream, runs, notDeploy>>

\* A "uses" step runs its action, which succeeds or fails.
UsesStep ==
    /\ dpc = "running"
    /\ dstep <= Len(DeploySteps)
    /\ DeploySteps[dstep].kind = "uses"
    /\ StepRuns(status)
    /\ \E ok \in BOOLEAN :
        /\ steplog' = Append(steplog,
                [step |-> dstep, outcome |-> IF ok THEN "success" ELSE "failure"])
        /\ status' = IF ok THEN status ELSE "failure"
        /\ runs' = IF ok
                   THEN [runs EXCEPT ![Len(runs)].got =
                                Got(@, DeploySteps[dstep].name, upstream)]
                   ELSE runs
    /\ dstep' = dstep + 1
    /\ dcmd' = 1
    /\ UNCHANGED <<dpc, events, nruns, run_event, cmdlog, upstream, notDeploy>>

\* The shell runs the next line of a "run" step; after the last line the
\* step ends with the outcome of that line.
RunCommand ==
    /\ dpc = "running"
    /\ dstep <= Len(DeploySteps)
    /\ DeploySteps[dstep].kind = "run"
    /\ StepRuns(status)
    /\ LET cmds == DeploySteps[dstep].cmds
           cmd == cmds[dcmd]
       IN  \E ok \in (IF Needs(cmd) \cap FailedCmds # {} THEN {FALSE} ELSE BOOLEAN) :
             LET log == Append(cmdlog, [cmd |-> cmd, ok |-> ok])
             IN  /\ cmdlog' = log
                 /\ runs' = IF ok
                            THEN [runs EXCEPT ![Len(runs)].got = Got(@, cmd, upstream)]
                            ELSE runs
                 /\ IF dcmd < Len(cmds)
                    THEN /\ dcmd' = dcmd + 1
                         /\ UNCHANGED <<dstep, status, steplog>>
                    ELSE LET out == RunStepOutcome(SubSeq(log, Len(log) - Len(cmds) + 1, Len(log)))
                         IN  /\ steplog' = Append(steplog, [step |-> dstep, outcome |-> out])
                             /\ status' = IF out = "success" THEN status ELSE "failure"
                             /\ dstep' = dstep + 1
                             /\ dcmd' = 1
    /\ UNCHANGED <<dpc, events, nruns, run_event, upstream, notDeploy>>

\* A step whose condition is false is skipped.
SkipStep ==
    /\ dpc = "running"
    /\ dstep <= Len(DeploySteps)
    /\ ~StepRuns(status)
    /\ steplog' = Append(steplog, [step |-> dstep, outcome |-> "skipped"])
    /\ dstep' = dstep + 1
    /\ dcmd' = 1
    /\ UNCHANGED <<dpc, events, nruns, run_event, status, cmdlog, upstream, runs,
                   notDeploy>>

\* The job ends after its last step.
FinishJob ==
    /\ dpc = "running"
    /\ dstep > Len(DeploySteps)
    /\ dpc' = "idle"
    /\ UNCHANGED <<events, nruns, run_event, dstep, dcmd, status, steplog, cmdlog,
                   upstream, runs, notDeploy>>

\* A push to the main branch of an upstream repository, at any time.
UpstreamPush ==
    /\ \E r \in UpstreamRepos :
        /\ upstream[r] < MaxRev
        /\ upstream' = [upstream EXCEPT ![r] = @ + 1]
    /\ UNCHANGED <<dpc, events, nruns, run_event, dstep, dcmd, status, steplog,
                   cmdlog, runs, notDeploy>>

InitDeploy ==
    /\ TocIdle
    /\ LmdbIdle
    /\ EnergyIdle
    /\ RelaxIdle
    /\ DeployIdle

NextDeploy ==
    \/ TriggerRun
    \/ IgnoreEvent
    \/ UsesStep
    \/ RunCommand
    \/ SkipStep
    \/ FinishJob

SpecDeploy == InitDeploy /\ [][NextDeploy]_vars

\* The runs of the job together with the upstream repositories, which change
\* on their own; the events that start no run are left out here.
NextProvision ==
    \/ TriggerRun
    \/ UsesStep
    \/ RunCommand
    \/ SkipStep
    \/ FinishJob
    \/ UpstreamPush

SpecProvision == InitDeploy /\ [][NextProvision]_vars

-----------------------------------------------------------------------------
(* The table of contents (_toc.yml) and the reading order of the site *)

MaxClicks == 9      \* pages a reader opens in one behaviour

\* root: intro
TocRoot == "intro"

\* Mutant: the IS2RE chapter listed a second time, in the last part.
TocPartsRepeated ==
    << [caption |-> "Background",
        chapters |-> <<"notes/background/background",
                       "notes/background/extra_resources",
                       "notes/background/install">>],
       [caption |-> "Quick-start using pre-trained models",
        chapters |-> <<"notes/pretrained_models/relaxations",
                       "notes/pretrained_models/ase_calculator_demo",
                       "notes/pretrained_models/ase_calculator_demo_oc22">>],
       [caption |-> "Using the OCP datasets",
        chapters |-> <<"notes/ocp_datasets/oc20_overview",
                       "notes/ocp_datasets/oc22_overview",
                       "notes/ocp_datasets/interacting_with_datasets">>],
       [caption |-> "Training ML models for OCP tasks",
        chapters |-> <<"notes/model_training/ocp_tasks",
                       "notes/model_training/s2ef",
                       "notes/model_training/is2rs",
                       "notes/model_training/is2re">>],
       [caption |-> "Using OCP with your own datasets",
        chapters |-> <<"notes/custom_datasets/data_preprocessing",
                       "notes/model_training/is2re">>] >>

\* parts: the captions with their chapters, in file order.
TocParts ==
    << [caption |-> "Background",
        chapters |-> <<"notes/background/background",
                       "notes/background/extra_resources",
                       "notes/background/install">>],
       [caption |-> "Quick-start using pre-trained models",
        chapters |-> <<"notes/pretrained_models/relaxations",
                       "notes/pretrained_models/ase_calculator_demo",
                       "notes/pretrained_models/ase_calculator_demo_oc22">>],
       [caption |-> "Using the OCP datasets",
        chapters |-> <<"notes/ocp_datasets/oc20_overview",
                       "notes/ocp_datasets/oc22_overview",
                       "notes/ocp_datasets/interacting_with_datasets">>],
       [caption |-> "Training ML models for OCP tasks",
        chapters |-> <<"notes/model_training/ocp_tasks",
                       "notes/model_training/s2ef",
                       "notes/model_training/is2rs",
                       "notes/model_training/is2re">>],
       [caption |-> "Using OCP with your own datasets",
        chapters |-> <<"notes/custom_datasets/data_preprocessing",
                       "notes/custom_datasets/lmdb_dataset_creation">>] >>

\* format: jb-book.  The root document opens the reading order.
TocRootEntry ==
    /\ tpc = "root"
    /\ sequence' = <<TocRoot>>
    /\ tpart' = 1
    /\ tchap' = 1
    /\ tpc' = "parts"
    /\ UNCHANGED <<page, trail, notToc>>

\* The next "- file:" entry: the chapters of a part follow one another, and
\* after the last chapter of a part comes the first one of the next part.
TocChapter ==
    /\ tpc = "parts"
    /\ tpart <= Len(TocParts)
    /\ LET chapters == TocParts[tpart].chapters
       IN  /\ sequence' = Append(sequence, chapters[tchap])
           /\ IF tchap < Len(chapters)
              THEN tchap' = tchap + 1 /\ tpart' = tpart
              ELSE tchap' = 1 /\ tpart' = tpart + 1
    /\ UNCHANGED <<tpc, page, trail, notToc>>

\* The end of the file.
TocEnd ==
    /\ tpc = "parts"
    /\ tpart > Len(TocParts)
    /\ tpc' = "built"
    /\ UNCHANGED <<tpart, tchap, sequence, page, trail, notToc>>

\* A reader opens the site: its index page is the root document.
OpenSite ==
    /\ tpc = "built"
    /\ page = 0
    /\ page' = 1
    /\ trail' = <<sequence[1]>>
    /\ UNCHANGED <<tpc, tpart, tchap, sequence, notToc>>

\* The reader follows the "next" link of the page.
NextPage ==
    /\ page >= 1
    /\ page < Len(sequence)
    /\ Len(trail) < MaxClicks
    /\ page' = page + 1
    /\ trail' = Append(trail, sequence[page + 1])
    /\ UNCHANGED <<tpc, tpart, tchap, sequence, notToc>>

\* The reader follows the "previous" link of the page.
PrevPage ==
    /\ page > 1
    /\ Len(trail) < MaxClicks
    /\ page' = page - 1
    /\ trail' = Append(trail, sequence[page - 1])
    /\ UNCHANGED <<tpc, tpart, tchap, sequence, notToc>>

InitToc ==
    /\ LmdbIdle
    /\ EnergyIdle
    /\ RelaxIdle
    /\ DeployIdle
    /\ anb = "none" /\ apc = "idle" /\ had = {} /\ disk = {} /\ requests = <<>>
    /\ cnb = "none" /\ mainop = "none" /\ bgops = {} /\ nops = 0 /\ nloads = 0
    /\ tpc = "root"
    /\ tpart = 0
    /\ tchap = 0
    /\ sequence = <<>>
    /\ page = 0
    /\ trail = <<>>

NextToc ==
    \/ TocRootEntry
    \/ TocChapter
    \/ TocEnd
    \/ OpenSite
    \/ NextPage
    \/ PrevPage

SpecToc == InitToc /\ [][NextToc]_vars

-----------------------------------------------------------------------------
(* The data each notebook works on: downloaded assets or toy data *)

\* The notebooks that have code cells.
AssetNotebooks ==
    {"relaxations", "ase_calculator_demo", "ase_calculator_demo_oc22",
     "interacting_with_datasets", "s2ef", "is2re", "data_preprocessing",
     "lmdb_dataset_creation"}

GemnetUrl ==
    "https://dl.fbaipublicfiles.com/opencatalystproject/models/2021_08/s2ef/gemnet_t_direct_h512_all.pt"
GnocUrl ==
    "https://dl.fbaipublicfiles.com/opencatalystproject/models/2022_09/oc22/s2ef/gnoc_oc22_oc20_all_s2ef.pt"
TutorialDataUrl ==
    "http://dl.fbaipublicfiles.com/opencatalystproject/data/tutorial_data.tar.gz"

GemnetFile == "gemnet_t_direct_h512_all.pt"
GnocFile == "gnoc_oc22_oc20_all_s2ef.pt"
Tarball == "data/tutorial_data.tar.gz"

\* The asset files an earlier run can have left in the working directory.
AssetFiles == {GemnetFile, GnocFile, Tarball}

\* Mutant: every notebook fetches the tutorial data.
DownloadsEverywhere(notebook) ==
    [url |-> TutorialDataUrl, file |-> Tarball, nc |-> FALSE, kind |-> "tarball",
     rm |-> FALSE]

\* The wget line of a notebook: the URL, the file it writes, whether it has
\* -nc (no download when the file is already there), and whether the cell
\* removes the tarball after unpacking it.  None for a notebook without one.
Downloads(notebook) ==
    CASE notebook = "ase_calculator_demo" ->
            [url |-> GemnetUrl, file |-> GemnetFile, nc |-> TRUE,
             kind |-> "checkpoint", rm |-> FALSE]
      [] notebook = "ase_calculator_demo_oc22" ->
            [url |-> GnocUrl, file |-> GnocFile, nc |-> TRUE,
             kind |-> "checkpoint", rm |-> FALSE]
      [] notebook = "interacting_with_datasets" ->
            [url |-> TutorialDataUrl, file |-> Tarball, nc |-> FALSE,
             kind |-> "tarball", rm |-> TRUE]
      [] notebook \in {"s2ef", "is2re"} ->
            [url |-> TutorialDataUrl, file |-> Tarball, nc |-> TRUE,
             kind |-> "tarball", rm |-> FALSE]
      [] OTHER -> None

\* The trajectory a notebook without a wget line produces itself, by relaxing
\* a structure it builds with the toy calculator.
ToyData(notebook) ==
    CASE notebook = "relaxations" -> {"data/Cu100.traj", "data/Cu100+CH3O.traj"}
      [] notebook \in {"data_preprocessing", "lmdb_dataset_creation"} ->
            {"CuCO_adslab.traj"}
      [] OTHER -> {}

\* The wget line: with -nc and the file in place nothing is requested;
\* otherwise the URL is requested and, if that succeeds, the file written.
Wget ==
    /\ apc = "cells"
    /\ Downloads(anb) # None
    /\ LET d == Downloads(anb)
       IN  IF d.nc /\ d.file \in disk
           THEN UNCHANGED <<disk, requests>>
           ELSE \E ok \in BOOLEAN :
                  /\ requests' = Append(requests, [url |-> d.url, ok |-> ok])
                  /\ disk' = IF ok THEN disk \cup {d.file} ELSE disk \ {d.file}
    /\ apc' = IF Downloads(anb).kind = "tarball" THEN "untar" ELSE "use"
    /\ UNCHANGED <<anb, had, notAsset>>

\* tar -xzvf tutorial_data.tar.gz (and rm tutorial_data.tar.gz)
Untar ==
    /\ apc = "untar"
    /\ disk' = (IF Tarball \in disk THEN disk \cup {"data/s2ef", "data/is2re"} ELSE disk)
                   \ (IF Downloads(anb).rm THEN {Tarball} ELSE {})
    /\ apc' = "use"
    /\ UNCHANGED <<anb, had, requests, notAsset>>

\* The cell that builds a structure and relaxes it with EMT.
MakeToyData ==
    /\ apc = "cells"
    /\ Downloads(anb) = None
    /\ disk' = disk \cup ToyData(anb)
    /\ apc' = "use"
    /\ UNCHANGED <<anb, had, requests, notAsset>>

\* The cells that read the data.
UseData ==
    /\ apc = "use"
    /\ apc' = "done"
    /\ UNCHANGED <<anb, had, disk, requests, notAsset>>

InitAsset ==
    /\ LmdbIdle
    /\ EnergyIdle
    /\ RelaxIdle
    /\ DeployIdle
    /\ tpc = "idle" /\ tpart = 0 /\ tchap = 0 /\ sequence = <<>> /\ page = 0
    /\ trail = <<>>
    /\ anb \in AssetNotebooks
    /\ apc = "cells"
    /\ had \in SUBSET AssetFiles
    /\ disk = had
    /\ requests = <<>>
    /\ cnb = "none" /\ mainop = "none" /\ bgops = {} /\ nops = 0 /\ nloads = 0

NextAsset ==
    \/ Wget
    \/ Untar
    \/ MakeToyData
    \/ UseData

SpecAsset == InitAsset /\ [][NextAsset]_vars

-----------------------------------------------------------------------------
(* The operations in progress while a notebook runs *)

MaxOps == 3         \* operations of the kernel's thread, and batch loads

\* The notebooks that write LMDB files, train, or only relax structures.
ConcNotebooks == {"lmdb_dataset_creation", "s2ef", "is2re", "relaxations"}

\* optimizer = {..., 'num_workers': 2, ...}: the worker processes the
\* trainer's data loader starts; the other notebooks configure none.
NumWorkers(notebook) == IF notebook \in {"s2ef", "is2re"} THEN 2 ELSE 0

\* lmdb.open(..., map_async=True): asynchronous flushes are asked for.
MapAsync == TRUE

\* Mutant: lmdb.open(..., writemap=True, map_async=True).
WriteMapOn == TRUE

\* lmdb.open is called without writemap, which defaults to False.
WriteMap == FALSE

\* LMDB flushes in the background only when the map is writable and
\* map_async is set; otherwise commit and sync flush before they return.
AsyncFlush(notebook) ==
    notebook = "lmdb_dataset_creation" /\ MapAsync /\ WriteMap

\* The operations a notebook's cells run in the kernel's thread.
MainOps(notebook) ==
    CASE notebook = "lmdb_dataset_creation" -> {"statement", "lmdb_commit"}
      [] notebook \in {"s2ef", "is2re"} -> {"statement", "train"}
      [] OTHER -> {"statement", "relaxation"}

\* The kernel's thread begins its next operation.
BeginOp ==
    /\ mainop = "none"
    /\ nops < MaxOps
    /\ \E k \in MainOps(cnb) : mainop' = k
    /\ nops' = nops + 1
    /\ UNCHANGED <<cnb, bgops, nloads, notConc>>

\* The operation returns.  trainer.train() returns after its workers have
\* stopped; a commit leaves a flush behind when flushes are asynchronous.
EndOp ==
    /\ mainop # "none"
    /\ mainop = "train" => bgops = {}
    /\ bgops' = IF mainop = "lmdb_commit" /\ AsyncFlush(cnb)
                THEN bgops \cup {[kind |-> "flush", w |-> 0]}
                ELSE bgops
    /\ mainop' = "none"
    /\ UNCHANGED <<cnb, nops, nloads, notConc>>

\* During training a worker process that is free begins to load a batch.
WorkerLoad ==
    /\ mainop = "train"
    /\ nloads < MaxOps
    /\ \E w \in 1..NumWorkers(cnb) :
        /\ \A o \in bgops : o.w # w
        /\ bgops' = bgops \cup {[kind |-> "load", w |-> w]}
    /\ nloads' = nloads + 1
    /\ UNCHANGED <<cnb, mainop, nops, notConc>>

\* An operation outside the kernel's thread ends.
BackgroundDone ==
    /\ \E o \in bgops : bgops' = bgops \ {o}
    /\ UNCHANGED <<cnb, mainop, nops, nloads, notConc>>

InitConc ==
    /\ LmdbIdle
    /\ EnergyIdle
    /\ RelaxIdle
    /\ DeployIdle
    /\ tpc = "idle" /\ tpart = 0 /\ tchap = 0 /\ sequence = <<>> /\ page = 0
    /\ trail = <<>>
    /\ anb = "none" /\ apc = "idle" /\ had = {} /\ disk = {} /\ requests = <<>>
    /\ cnb \in ConcNotebooks
    /\ mainop = "none"
    /\ bgops = {}
    /\ nops = 0
    /\ nloads = 0

NextConc ==
    \/ BeginOp
    \/ EndOp
    \/ WorkerLoad
    \/ BackgroundDone

SpecConc == InitConc /\ [][NextConc]_vars

-----------------------------------------------------------------------------
(* Properties of lmdb_dataset_creation.ipynb *)

\* int(key.decode("ascii")): the integer a key of decimal digits encodes.
DigitValue(ch) == CHOOSE d \in 0..9 : DigitChars[d + 1] = ch
RECURSIVE IntOfStr(_)
IntOfStr(str) ==
    IF Len(str) = 1 THEN DigitValue(str[1])
    ELSE 10 * IntOfStr(SubSeq(str, 1, Len(str) - 1)) + DigitValue(str[Len(str)])

\* The keys of a store that are strings of decimal digits.
IntegerKeys(db) ==
    {k \in DOMAIN db : \A i \in DOMAIN k : \E d \in 0..9 : DigitChars[d + 1] = k[i]}

\* The IS2RE loop has finished and db.close() has run.
Is2reClosed ==
    pc \in {"read1", "item1", "error_read1", "open2", "convert2", "s2ef",
            "error2", "read2", "item2", "done", "error_read2"}

\* The S2EF write cell has run to its end (length written, store closed).
S2efCompleted == pc \in {"read2", "item2", "done", "error_read2"}

\* The S2EF write cell has stopped, by running to its end or by an exception.
S2efEnded == S2efCompleted \/ pc = "error2"

\* C1: once a write loop has finished and its store is closed, reading index
\* k through the dataset reader gives back the record that was pickled under
\* str(k), for every k the loop wrote, and the reader's length is the number
\* of records the loop wrote; the values the notebook displays agree.
C1_RoundTrip ==
    /\ Is2reClosed =>
         /\ \A i \in DOMAIN put1 :
              LET b == SinglePointGet(db1, IntOfStr(put1[i].key))
              IN  b.type = "Data" /\ UnpickleData(b) = put1[i].rec
         /\ SinglePointLen(db1) = Len(put1)
    /\ S2efCompleted =>
         /\ \A i \in DOMAIN put2 :
              LET b == TrajectoryGet(db2, IntOfStr(put2[i].key))
              IN  b.type = "Data" /\ UnpickleData(b) = put2[i].rec
         /\ TrajectoryHasLength(db2)
         /\ TrajectoryLen(db2) = Len(put2)
    /\ pc = "item1" => dataset_len = Len(put1)
    /\ pc = "open2" => shown = put1[1].rec
    /\ pc = "item2" => dataset_len = Len(put2)
    /\ pc = "done" => shown = put2[1].rec

C1_Witness == pc = "done" /\ Len(put1) >= 2 /\ Len(put2) >= 11

\* C2: every S2EF LMDB file the write cell leaves behind contains a "length"
\* key, and when the cell has run to its end the value under "length" is the
\* number of records stored under integer keys.
C2_LengthKey ==
    /\ S2efEnded => LengthKey \in DOMAIN db2
    /\ S2efCompleted =>
         UnpickleInt(db2[LengthKey]) = Cardinality(IntegerKeys(db2))

\* C3: every record written to the IS2RE/IS2RS LMDB has pos_relaxed, sid,
\* y_init and y_relaxed and no y; y_init is the energy of the trajectory's
\* first frame, y_relaxed and pos_relaxed the energy and positions of its
\* last frame.
C3_Is2reAttributes ==
    \A i \in DOMAIN put1 :
        LET rec == put1[i].rec
            traj == files[system_paths[put1[i].src]]
        IN  /\ {"pos_relaxed", "sid", "y_init", "y_relaxed"} \subseteq DOMAIN rec
            /\ "y" \notin DOMAIN rec
            /\ rec.y_init = EMT(traj[1])
            /\ rec.y_relaxed = EMT(traj[Len(traj)])
            /\ rec.pos_relaxed = traj[Len(traj)]
            /\ Get(db1, put1[i].key) = PickleData(rec)

C3_Witness ==
    \E i \in DOMAIN put1 :
        LET traj == files[system_paths[put1[i].src]]
        IN  traj[1] # traj[Len(traj)]

\* C4: every record written to the S2EF LMDB has fid equal to the index of
\* its frame in the trajectory, which is the integer its key encodes; all
\* records carry the same sid, and no two records share a fid.
C4_S2efFid ==
    /\ \A i \in DOMAIN put2 :
         LET rec == put2[i].rec
         IN  /\ rec.fid = <<put2[i].src - 1>>
             /\ rec.fid = <<IntOfStr(put2[i].key)>>
             /\ rec.pos = raw_data[put2[i].src]
    /\ \A i, j \in DOMAIN put2 :
         /\ put2[i].rec.sid = put2[j].rec.sid
         /\ i # j => put2[i].rec.fid # put2[j].rec.fid

C4_Witness == Len(put2) >= 11 /\ put2[11].key = <<"1", "0">>

\* The keys "0" .. "n-1".
KeyRange(n) == {StrOfInt(k) : k \in 0..(n - 1)}

\* C20: in each LMDB the records sit under the string-encoded integer keys
\* "0" .. "n-1", n the number of records written, and a structure without
\* neighbours is skipped: the write loop goes on to the next structure and
\* the keys have no gap.
C20_SkipLeavesNoGap ==
    /\ DOMAIN db1 = KeyRange(Len(put1))
    /\ IntegerKeys(db2) = KeyRange(Len(put2))
    /\ pc \notin {"error1", "error2"}

\* The part of the toy structure an atom (1-based index) belongs to.
ToyRole(i) ==
    IF i > ToyNx * ToyNy * ToyNz THEN "adsorbate"
    ELSE IF i > ToyNx * ToyNy * (ToyNz - 1) THEN "surface"
    ELSE "subsurface"

\* C5: every tag stored in a record written to an LMDB is 0, 1 or 2, with 0
\* on the subsurface atoms, 1 on the surface atoms and 2 on the adsorbate.
C5_TagValues ==
    \A h \in {put1, put2} : \A i \in DOMAIN h :
        \A a \in DOMAIN h[i].rec.tags :
            LET t == h[i].rec.tags[a]
            IN  /\ t \in {0, 1, 2}
                /\ t = 0 <=> ToyRole(a) = "subsurface"
                /\ t = 1 <=> ToyRole(a) = "surface"
                /\ t = 2 <=> ToyRole(a) = "adsorbate"

\* C6: any two records the IS2RE loop writes have different sid values, and
\* each record's sid is the integer its key encodes.
C6_UniqueSid ==
    /\ \A i, j \in DOMAIN put1 : i # j => put1[i].rec.sid # put1[j].rec.sid
    /\ \A i \in DOMAIN put1 : put1[i].rec.sid = IntOfStr(put1[i].key)

C6_Witness == Len(put1) >= 2

\* The notebook has stopped in a cell that raised an exception.
Raised ==
    pc \in {"error_raw", "error_file1", "error1", "error2", "error_read1",
            "error_read2"}

\* C15: an exception raised by a library call (here ase.io.read of a file
\* that is missing) is neither caught nor retried by notebook code: the
\* statements after the failing call do not run, so nothing of the notebook
\* runs past a read of a missing file, the IS2RE cell that failed writes no
\* record for the failing system and does not close its store, and once a
\* cell has raised nothing of the notebook's state changes any more.
C15_NoErrorHandling ==
    /\ [](/\ pc \notin {"raw", "error_raw"} => ToyPath \in DOMAIN files
          /\ pc \in {"is2re", "error_file1", "error1"} =>
                \A k \in 1..(sysi - 1) : system_paths[k] \in DOMAIN files
          /\ Is2reClosed =>
                \A k \in DOMAIN system_paths : system_paths[k] \in DOMAIN files
          /\ pc = "error_raw" => raw_data = <<>> /\ ~db1open /\ db1 = EmptyDb
          /\ pc = "error_file1" =>
                /\ system_paths[sysi] \notin DOMAIN files
                /\ db1open
                /\ idx = Len(put1)
                /\ \A i \in DOMAIN put1 : put1[i].src < sysi)
    /\ [][Raised => UNCHANGED lmdbVars]_vars

C15_Witness == pc = "error_file1" /\ sysi = 2 /\ Len(put1) = 1 /\ db1open

-----------------------------------------------------------------------------
(* Properties of the adsorption-energy cell *)

\* C7: for all gas-phase energies the adsorbate reference energy of CH3O is
\* E_CO + 3/2 E_H2 (here in half units: 2 E_CO + 3 E_H2), whatever the H2O
\* and N2 energies are, and the adsorption energy is the adslab energy minus
\* the bare-slab energy minus that reference.
C7_ReferenceEnergy ==
    epc = "done" =>
        /\ nb.adsorbate_reference_energy = 2 * nb.CO_energy + 3 * nb.H2_energy
        /\ nb.adsorption_energy =
             2 * nb.adslab_energy - 2 * nb.slab_energy
               - (2 * nb.CO_energy + 3 * nb.H2_energy)

C7_Witness ==
    /\ epc = "done"
    /\ nb.H2O_energy # 0 /\ nb.N2_energy # 0 /\ nb.H2_energy # 0
    /\ nb.CO_energy # 0 /\ nb.adslab_energy # nb.slab_energy

-----------------------------------------------------------------------------
(* Properties of the set-up cells *)

\* The constraint of the cell has been set (the gas-phase molecules of the
\* adsorption-energy cell get none).
ConstraintSet == rpc \in {"ready", "running", "done"} /\ rcell.mol = "none"

\* C8: in the relaxation notebooks the atoms held fixed are exactly the atoms
\* tagged 0, none of them tagged 1 or 2; on the 3x3x3 slab atoms 0..17 have
\* tag 0, atoms 18..26 tag 1 and every adsorbate atom (27 and above) tag 2.
C8_FixedAreTagZero ==
    (ConstraintSet /\ rcell.notebook \in RelaxationNotebooks) =>
        /\ \A a \in 0..(Len(rtags) - 1) : a \in rcons <=> rtags[a + 1] = 0
        /\ rcons \subseteq 0..(Len(rtags) - 1)
        /\ \A a \in rcons : rtags[a + 1] \notin {1, 2}
        /\ Len(rtags) >= 27
        /\ \A a \in 0..(Len(rtags) - 1) :
             rtags[a + 1] = IF a <= 17 THEN 0 ELSE IF a <= 26 THEN 1 ELSE 2

C8_Witness ==
    /\ ConstraintSet
    /\ rcell.notebook \in RelaxationNotebooks
    /\ Len(rtags) = 32
    /\ rcons # {}

-----------------------------------------------------------------------------
(* Properties of the optimizer runs *)

\* C17: in the toy-calculator notebook the bare-slab relaxation and the
\* adslab relaxation each take all 100 optimizer steps; neither returns
\* earlier because the force criterion was met.
C17_FullHundredSteps ==
    (rpc = "done" /\ rcell \in {RelaxationsSlab, RelaxationsAdslab}) =>
        nsteps = QuickSteps

\* The notebooks whose relaxation builds the toy CO-on-Cu dataset.
ToyDatasetNotebooks == {"lmdb_dataset_creation", "data_preprocessing"}

\* C19: every relaxation run returns, after at most its configured number
\* of optimizer steps (100, or 1000 for the toy CO-on-Cu dataset), also when
\* fmax = 0 keeps the force criterion from ever being met; the trajectory
\* it writes has at most steps + 1 frames.
C19_RelaxationTerminates ==
    /\ [](/\ rcell.steps =
               IF rcell.notebook \in ToyDatasetNotebooks THEN 1000 ELSE 100
          /\ nsteps <= rcell.steps
          /\ nframes <= rcell.steps + 1
          /\ (rpc = "running" /\ rcell.fmax = 0) => ~conv)
    /\ <>(rpc = "done")

C19_Witness ==
    /\ rpc = "done"
    /\ rcell = DatasetToy
    /\ ~conv
    /\ nsteps = ToySteps
    /\ nframes = ToySteps + 1

-----------------------------------------------------------------------------
(* Properties of the deploy workflow *)

\* The steps of the latest run that were executed (not skipped).
Executed == {steplog[i].step : i \in {j \in DOMAIN steplog : steplog[j].outcome # "skipped"}}

\* C9: the job goes through its steps in the one order checkout, provision
\* the environment, install the packages, build, publish; the publish step
\* is executed only after every earlier step ended successfully, and a run
\* whose build command failed never executes the publish step.
C9_StepOrder ==
    /\ \A i \in DOMAIN steplog : steplog[i].step = i
    /\ Len(steplog) <= 6
    /\ dpc = "running" => dstep = Len(steplog) + 1
    /\ 6 \in Executed => \A i \in 1..5 : steplog[i].outcome = "success"
    /\ (\E i \in DOMAIN cmdlog : cmdlog[i].cmd = "jupyter-book build" /\ ~cmdlog[i].ok)
          => 6 \notin Executed
    /\ \A i \in DOMAIN steplog :
         steplog[i].outcome # "skipped" =>
            \A j \in 1..(i - 1) : steplog[j].outcome = "success"

C9_Witness ==
    /\ Len(steplog) = 6
    /\ steplog[6].outcome = "success"
    /\ \E i \in DOMAIN cmdlog : ~cmdlog[i].ok

\* C10: a run of the deploy job is started by a push to the branch main and
\* by nothing else: whenever a run is in progress or has left a step or a
\* command behind, the event that started it is a push to main.
C10_TriggerOnlyMain ==
    /\ (dpc = "running" \/ steplog # <<>> \/ cmdlog # <<>>) =>
          /\ run_event.type = "push"
          /\ run_event.ref = [kind |-> "branch", name |-> "main"]
    /\ nruns = Cardinality({i \in DOMAIN events :
                    /\ events[i].type = "push"
                    /\ events[i].ref = [kind |-> "branch", name |-> "main"]})

C10_Witness ==
    /\ dpc = "running"
    /\ Len(events) = 2
    /\ events[1] = [type |-> "push", ref |-> [kind |-> "branch", name |-> "dev"]]
    /\ 5 \in Executed

\* The runs that have a fetch of the item on record.
RunsWith(item) == {i \in DOMAIN runs : item \in DOMAIN runs[i].got}

\* C11: two runs of the job on the same commit obtain the same action
\* version, the same dependency files and the same revision of the external
\* framework, whatever the upstream repositories did between and during them.
C11_FixedEnvironment ==
    \A item \in {"action", "env.common.yml", "env.cpu.yml", "ocp"} :
        \A i, j \in RunsWith(item) :
            runs[i].commit = runs[j].commit =>
                runs[i].got[item] = runs[j].got[item]

\* The commands that install: the update of the base environment from the
\* framework's merged dependency files, and setup.py develop in the clone of
\* the framework.
InstallCmds == {"mamba env update", "cd ocp && python setup.py develop"}

\* The positions in cmdlog at which a command ran and succeeded.
Succeeded(cmd) == {i \in DOMAIN cmdlog : cmdlog[i].cmd = cmd /\ cmdlog[i].ok}

\* The build step is about to run its command, or has run it.
BuildStarted ==
    \/ dpc = "running" /\ dstep = 5 /\ StepRuns(status)
    \/ \E i \in DOMAIN cmdlog : cmdlog[i].cmd = "jupyter-book build"

\* C12: when the build step starts, both install steps have ended
\* successfully and each of the two install commands has run and succeeded
\* (the clone that the second one enters included), all of them before the
\* build command.
C12_InstalledBeforeBuild ==
    BuildStarted =>
        /\ Cardinality(InstallCmds) = 2
        /\ \A c \in InstallCmds \cup {"git clone ocp"} :
             /\ Succeeded(c) # {}
             /\ \A i \in Succeeded(c) : \A j \in DOMAIN cmdlog :
                    cmdlog[j].cmd = "jupyter-book build" => i < j
        /\ Len(steplog) >= 4
        /\ steplog[3].outcome = "success"
        /\ steplog[4].outcome = "success"

C12_Witness ==
    \E i \in DOMAIN cmdlog :
        /\ cmdlog[i].cmd = "jupyter-book build"
        /\ \E j \in 1..(i - 1) : ~cmdlog[j].ok

-----------------------------------------------------------------------------
(* Properties of the table of contents *)

\* The positions a document occupies in the reading order.
Positions(doc) == {i \in DOMAIN sequence : sequence[i] = doc}

\* The documents the table of contents lists.
TocDocs ==
    {TocRoot} \cup
    UNION {{TocParts[p].chapters[c] : c \in DOMAIN TocParts[p].chapters} :
              p \in DOMAIN TocParts}

\* C13: the table of contents gives one reading sequence: the root document
\* intro is first, the five parts follow in the order listed with their
\* chapters in the order listed, and every document has exactly one position;
\* a reader who starts at the index page and follows the links moves along
\* that sequence.
C13_ReadingSequence ==
    /\ tpc = "built" =>
         /\ sequence[1] = "intro"
         /\ Len(TocParts) = 5
         /\ \A d \in TocDocs : Cardinality(Positions(d)) = 1
         /\ \A i \in DOMAIN sequence : sequence[i] \in TocDocs
         /\ \A p, q \in DOMAIN TocParts :
              \A c \in DOMAIN TocParts[p].chapters :
                \A e \in DOMAIN TocParts[q].chapters :
                  (p < q \/ (p = q /\ c < e)) =>
                     \A i \in Positions(TocParts[p].chapters[c]) :
                       \A j \in Positions(TocParts[q].chapters[e]) : 1 < i /\ i < j
    /\ page >= 1 => trail[1] = "intro" /\ trail[Len(trail)] = sequence[page]

C13_Witness == tpc = "built" /\ Len(sequence) = 16 /\ page = 6 /\ Len(trail) = 6

\* C18: in the reading sequence the IS2RS chapter comes after (below) the
\* IS2RE chapter, whose text refers to "the IS2RS task below".
C18_Is2rsBelowIs2re ==
    tpc = "built" =>
        \A i \in Positions("notes/model_training/is2re") :
            \A j \in Positions("notes/model_training/is2rs") : i < j

-----------------------------------------------------------------------------
(* Properties of the notebooks' downloads *)

\* C14 as stated: each notebook, when it is run, downloads a fixed asset (a
\* checkpoint or the tarball of sample datasets) from a hard-coded URL.
C14_EachNotebookDownloads ==
    apc = "done" =>
        /\ requests # <<>>
        /\ \A i \in DOMAIN requests :
             requests[i].url \in {GemnetUrl, GnocUrl, TutorialDataUrl}

\* C14 as amended: every download a notebook makes is the one its wget line
\* hard-codes, a checkpoint in the two calculator demos and the tarball in
\* interacting_with_datasets, s2ef and is2re; it is made once, at the wget
\* line, unless that line has -nc and the file is already there; relaxations,
\* data_preprocessing and lmdb_dataset_creation download nothing and produce
\* their trajectories themselves.
C14_DownloadsAsHardcoded ==
    /\ Len(requests) <= 1
    /\ \A i \in DOMAIN requests :
         /\ Downloads(anb) # None
         /\ requests[i].url = Downloads(anb).url
         /\ requests[i].url \in {GemnetUrl, GnocUrl, TutorialDataUrl}
    /\ anb \in {"ase_calculator_demo", "ase_calculator_demo_oc22"}
          => Downloads(anb).kind = "checkpoint"
    /\ anb \in {"interacting_with_datasets", "s2ef", "is2re"}
          => Downloads(anb).kind = "tarball"
    /\ apc \in {"untar", "use", "done"} =>
         /\ anb \in {"relaxations", "data_preprocessing", "lmdb_dataset_creation"}
              => requests = <<>> /\ ToyData(anb) # {} /\ ToyData(anb) \subseteq disk
         /\ anb \notin {"relaxations", "data_preprocessing", "lmdb_dataset_creation"}
              => (requests = <<>> <=> (Downloads(anb).nc /\ Downloads(anb).file \in had))

C14_Witness ==
    /\ apc = "done"
    /\ anb = "s2ef"
    /\ Tarball \notin had
    /\ Len(requests) = 1
    /\ requests[1].ok

-----------------------------------------------------------------------------
(* Properties of the operations in progress *)

\* The number of operations in progress.
InProgress == (IF mainop = "none" THEN 0 ELSE 1) + Cardinality(bgops)

====
